---- MODULE Spec2Model ----
(***************************************************************************)
(* Queue and playback layer of the music bot: QueueManager (core/queue.py), *)
(* Player (core/player.py), CallManager (core/calls.py) and the control     *)
(* command handlers (handlers/control.py).                                  *)
(*                                                                          *)
(* The program runs on one asyncio event loop: a coroutine runs atomically  *)
(* from one suspension point to the next.  The suspension points are the    *)
(* awaits on the voice library (join_group_call, change_stream,             *)
(* leave_group_call, pause_stream, resume_stream), asyncio.sleep and        *)
(* message.reply.  Each action below is one such atomic piece.  A coroutine *)
(* suspended at an await is a record in `tasks`.  The outcome of every call *)
(* to the voice library and of every file validation is chosen by the       *)
(* environment.  call_manager denotes the CallManager built by              *)
(* init_call_manager.  Task.cancel follows Python >= 3.8 (CancelledError is *)
(* not an Exception, so the cancelled coroutine runs no further code).      *)
(***************************************************************************)
EXTENDS Integers, Sequences, FiniteSets, Bags, TLC

\* ---------------------------------------------------------------- bounds
MaxTasks == 2          \* coroutines in flight at once, timers apart
MaxHandlers == 1       \* play handlers in flight at once
MaxAccepted == 2        \* accepted enqueues, over both chats, when two chats run

\* ------------------------------------------------------------- constants
MAX_QUEUE_SIZE == 2    \* config.MAX_QUEUE_SIZE
None == 0              \* Python None for an item / song
MaxItems == 4          \* accepted enqueues per chat
MaxLen == 4            \* longest queue the queue-only operations are applied to
MAX_AUDIO_DURATION == 2    \* config.MAX_AUDIO_DURATION
AllChats == {1, 2}

VARIABLES
    queues,            \* QueueManager.queues: chat -> list of items
    now_playing,       \* QueueManager.now_playing: chat -> item
    leave_timers,      \* QueueManager.leave_timers: chat -> the timer task, by its position
    timer_tasks,       \* event loop: chat -> leave_after_delay tasks created and neither
                       \* finished nor cancelled
    auto_leave_vc,     \* QueueManager.auto_leave_vc
    playing_states,    \* Player.playing_states: chat -> [is_playing, current_track]
    active_chats,      \* CallManager.active_chats: chat -> [playing, current_song]
    tasks,             \* bag of the other coroutines suspended at an await
    stream_ended,      \* voice library: chats whose current stream has ended
    nextItem,          \* chat -> id given to the next accepted QueueItem
    popped,            \* history: chat -> items popped by _play_next: in pop order while the
                       \* queue was only appended to and popped, by id afterwards
    reordered,         \* history: chat -> a shuffle/move/remove/clear changed the queue
    returned           \* history: the last queue-only call or /remove: its arguments, the
                       \* queue it found and what it returned or answered

vars == <<queues, now_playing, leave_timers, timer_tasks, auto_leave_vc, playing_states,
          active_chats, tasks, stream_ended, nextItem, popped, reordered, returned>>

\* the program's own state and the histories kept with it
core == <<queues, now_playing, leave_timers, timer_tasks, auto_leave_vc, playing_states,
          active_chats, tasks, stream_ended, nextItem, popped, reordered>>

\* ------------------------------------------------------- dict primitives
EmptyDict == [x \in {} |-> None]
Put(d, k, v) == [x \in (DOMAIN d) \cup {k} |-> IF x = k THEN v ELSE d[x]]
Del(d, k) == [x \in (DOMAIN d) \ {k} |-> d[x]]

\* ------------------------------------------------------ QueueManager reads
get_queue(c) == IF c \in DOMAIN queues THEN queues[c] ELSE <<>>
get_queue_length(c) == Len(get_queue(c))
player_is_playing(c) == c \in DOMAIN playing_states /\ playing_states[c].is_playing
call_manager_is_playing(c) == c \in DOMAIN active_chats /\ active_chats[c].playing
is_playing(c) == c \in DOMAIN now_playing \/ player_is_playing(c)

\* The pop history as it is kept: pop order matters only while the queue
\* has kept its insertion order.
Before(a, b) == a < b
Recorded(items, edited) == IF edited THEN SortSeq(items, Before) ELSE items

\* ------------------------------------------------------------ task records
\* A coroutine suspended at an await.  pops, fails, env and qlen0 are history:
\* entries popped and play attempts failed so far, what else happened on the
\* chat since a skip began, and the queue length when it began.  dur and
\* store belong to the play handlers: the duration of the requested track
\* and how the handler's create_user_safe call went.  stale is history too:
\* a /stop was accepted while the coroutine was inside play_audio.
Task(c, kind, pc, env) ==
    [chat |-> c, kind |-> kind, pc |-> pc, item |-> None,
     pops |-> 0, fails |-> 0, env |-> env, qlen0 |-> 0,
     dur |-> 0, store |-> "none", stale |-> FALSE]

TaskSet == BagToSet(tasks)
Spawn(tk, r) == tk (+) SetToBag({r})
Drop(tk, r) == tk (-) SetToBag({r})
ChatBusy(c) ==
    \/ \E r \in TaskSet : r.chat = c
    \/ c \in DOMAIN leave_timers /\ leave_timers[c] # "done"
Room == BagCardinality(tasks) < MaxTasks

\* Another operation ran on chat c while its skips were suspended.
Disturbed(r, c) ==
    IF r.chat = c /\ r.kind = "skip"
    THEN [r EXCEPT !.env = "mixed", !.qlen0 = 0] ELSE r
Disturb(tk, c) ==
    LET D(r) == Disturbed(r, c) IN BagOfAll(D, tk)

\* A /stop was accepted on chat c while its play attempts were suspended in
\* join_voice_chat or change_stream.
Overtaken(r, c) ==
    IF r.chat = c /\ r.pc \in {"join", "stream"}
    THEN [r EXCEPT !.stale = TRUE] ELSE r
Overtake(tk, c) ==
    LET O(r) == Overtaken(r, c) IN BagOfAll(O, tk)

\* A stream-end notification arrived while the skips of c were suspended.
Ended(r, c) ==
    IF r.chat = c /\ r.kind = "skip" /\ r.env = "solo"
    THEN [r EXCEPT !.env = "ended"] ELSE r
NoteEnd(tk, c) ==
    LET E(r) == Ended(r, c) IN BagOfAll(E, tk)

\* ------------------------------------------------- derived playback status
\* A play attempt (Player.play_audio) is suspended in join or change_stream.
Preparing(c) == \E r \in TaskSet : r.chat = c /\ r.pc \in {"join", "stream"}
Playing(c) == player_is_playing(c)
Paused(c) == c \in DOMAIN playing_states /\ ~playing_states[c].is_playing
Idle(c) == ~Preparing(c) /\ ~Playing(c) /\ ~Paused(c)

\* no queue-only call has been made yet
NoCall == [op |-> "none", chat |-> 0, from |-> 0, to |-> 0, before |-> <<>>,
           ret |-> FALSE, count |-> 0, reply |-> "none", store |-> "none"]

\* the call just made on chat c: its arguments, the queue it found, its result
Call(op, c, from, to, ret, count, reply) ==
    [op |-> op, chat |-> c, from |-> from, to |-> to, before |-> get_queue(c),
     ret |-> ret, count |-> count, reply |-> reply, store |-> "none"]

\* ------------------------------------------------------------------- Init
Init ==
    /\ queues = EmptyDict
    /\ now_playing = EmptyDict
    /\ leave_timers = EmptyDict
    /\ timer_tasks = [c \in AllChats |-> 0]
    /\ auto_leave_vc \in BOOLEAN
    /\ playing_states = EmptyDict
    /\ active_chats = EmptyDict
    /\ tasks = EmptyBag
    /\ stream_ended = {}
    /\ nextItem = [c \in AllChats |-> 1]
    /\ popped = [c \in AllChats |-> <<>>]
    /\ reordered = [c \in AllChats |-> FALSE]
    /\ returned = NoCall

\* --------------------------------------------------- QueueManager (queue.py)
\* variant: the capacity test off by one
QueueFull_strict(q) == Len(q) > MAX_QUEUE_SIZE
\* len(self.queues[chat_id]) >= self.max_queue_size
QueueFull(q) == Len(q) >= MAX_QUEUE_SIZE

\* variant: pop() takes the newest entry
Pop_last(q) == [item |-> q[Len(q)], rest |-> SubSeq(q, 1, Len(q) - 1)]
\* variant: the head is read but left in the queue
Pop_keep(q) == [item |-> q[1], rest |-> q]
\* self.queues[chat_id].pop(0)
Pop(q) == [item |-> q[1], rest |-> Tail(q)]

\* variant: the recorded timer is dropped without being cancelled
Cancelled_never(c) == 0
\* self.leave_timers[chat_id].cancel(): how many running tasks it ends (a
\* task that has finished is not affected)
Cancelled(c) ==
    IF c \in DOMAIN leave_timers /\ leave_timers[c] # "done" THEN 1 ELSE 0

\* n successive pop(0): the items in pop order and what is left
RECURSIVE PopN(_, _)
PopN(q, n) ==
    IF n = 0 THEN [items |-> <<>>, rest |-> q]
    ELSE LET p == Pop(q)
             r == PopN(p.rest, n - 1)
         IN [items |-> <<p.item>> \o r.items, rest |-> r.rest]

\* _play_next run by coroutine r, up to its next suspension point.
\* The first k entries fail validate_audio_file inside play_audio, which
\* returns False without suspending, so _play_next re-enters itself k times.
\* np, ac: now_playing and active_chats as the caller left them; others: the
\* other suspended coroutines.
PlayNext(c, r, k, np, ac, others) ==
    LET q == get_queue(c)
        n == IF k = Len(q) THEN k ELSE k + 1           \* entries popped
        p == PopN(q, n)
        t == [r EXCEPT !.pops = @ + n, !.fails = @ + k,
                       !.item = IF n = 0 THEN @ ELSE p.items[n]]
    IN
    /\ k <= Len(q)
    /\ queues' = IF n = 0 THEN queues ELSE [queues EXCEPT ![c] = p.rest]
    /\ popped' = [popped EXCEPT ![c] = Recorded(@ \o p.items, reordered[c])]
    /\ now_playing' = IF n = 0 THEN np ELSE Put(np, c, p.items[n])
    /\ IF k = Len(q)
       THEN \* queue exhausted: _handle_empty_queue cancels the old timer, then
            \* starts a new one or calls player.stop
            IF auto_leave_vc
            THEN /\ tasks' = others
                 /\ leave_timers' = Put(leave_timers, c, "sleep")
                 /\ timer_tasks' = [timer_tasks EXCEPT ![c] = @ - Cancelled(c) + 1]
            ELSE /\ tasks' = Spawn(others, [t EXCEPT !.pc = "stop_leave"])
                 /\ leave_timers' = Del(leave_timers, c)
                 /\ timer_tasks' = [timer_tasks EXCEPT ![c] = @ - Cancelled(c)]
       ELSE \* play_audio on a valid file suspends in the voice library
            /\ tasks' = Spawn(others,
                              [t EXCEPT !.pc = IF c \in DOMAIN ac THEN "stream" ELSE "join"])
            /\ leave_timers' = leave_timers
            /\ timer_tasks' = timer_tasks

\* what add_to_queue(chat_id, ...) returns
add_to_queue_returns(c) == ~QueueFull(get_queue(c))

\* add_to_queue(chat_id, ...) called while the coroutines `others` are
\* suspended
Enqueue(c, others) ==
    LET q == get_queue(c) IN
    /\ UNCHANGED <<now_playing, leave_timers, timer_tasks, auto_leave_vc, stream_ended, playing_states,
                   active_chats, popped, reordered>>
    /\ IF ~add_to_queue_returns(c)
       THEN /\ queues' = Put(queues, c, q)
            /\ tasks' = others
            /\ UNCHANGED nextItem
       ELSE /\ nextItem[c] <= MaxItems
            /\ queues' = Put(queues, c, Append(q, nextItem[c]))
            /\ nextItem' = [nextItem EXCEPT ![c] = @ + 1]
            /\ IF ~is_playing(c)
               THEN /\ BagCardinality(others) < MaxTasks
                    /\ tasks' = Spawn(Disturb(others, c),
                                      Task(c, "play_next", "start", "mixed"))
               ELSE tasks' = Disturb(others, c)

\* add_to_queue(chat_id, ...)
AddToQueue(c) ==
    /\ Enqueue(c, tasks)
    /\ UNCHANGED returned

\* the task created by add_to_queue starts running _play_next
StartPlayNext(r, k) ==
    /\ r \in TaskSet /\ r.pc = "start"
    /\ PlayNext(r.chat, r, k, now_playing, active_chats,
                Disturb(Drop(tasks, r), r.chat))
    /\ UNCHANGED <<auto_leave_vc, stream_ended, playing_states, active_chats, nextItem, reordered>>
    /\ UNCHANGED returned

\* play_audio resumes from join_voice_chat
JoinDone(r, ok, k) ==
    /\ r \in TaskSet /\ r.pc = "join"
    /\ LET c == r.chat
           others == Disturb(Drop(tasks, r), c)
       IN IF ok
          THEN /\ active_chats' = Put(active_chats, c,
                                      [playing |-> FALSE, current_song |-> None])
               /\ tasks' = Spawn(others, [r EXCEPT !.pc = "stream"])
               /\ k = 0
               /\ UNCHANGED <<queues, now_playing, leave_timers, timer_tasks, popped>>
          ELSE /\ PlayNext(c, [r EXCEPT !.fails = @ + 1], k, now_playing,
                           active_chats, others)
               /\ UNCHANGED active_chats
    /\ UNCHANGED <<auto_leave_vc, stream_ended, playing_states, nextItem, reordered>>
    /\ UNCHANGED returned

\* play_audio resumes from change_stream
StreamDone(r, ok, k) ==
    /\ r \in TaskSet /\ r.pc = "stream"
    /\ LET c == r.chat
           others == Disturb(Drop(tasks, r), c)
       IN IF ok
          THEN /\ active_chats' =
                    IF c \in DOMAIN active_chats
                    THEN [active_chats EXCEPT ![c] =
                            [playing |-> TRUE, current_song |-> r.item]]
                    ELSE active_chats
               /\ playing_states' = Put(playing_states, c,
                                        [is_playing |-> TRUE, current_track |-> r.item])
               /\ tasks' = others
               /\ k = 0
               /\ UNCHANGED <<queues, now_playing, leave_timers, timer_tasks, popped>>
          ELSE /\ PlayNext(c, [r EXCEPT !.fails = @ + 1], k, now_playing,
                           active_chats, others)
               /\ UNCHANGED <<active_chats, playing_states>>
    /\ stream_ended' = IF ok THEN stream_ended \ {r.chat} ELSE stream_ended
    /\ UNCHANGED <<auto_leave_vc, nextItem, reordered>>
    /\ UNCHANGED returned

\* ------------------------------------------------------ Player (player.py)
\* Player.stop after leave_voice_chat returned ok
StoppedCalls(c, ok) == IF ok THEN Del(active_chats, c) ELSE active_chats
\* variant: Player.stop forgets the playing state of every chat
StoppedStates_all(c) == EmptyDict
\* del self.playing_states[chat_id]
StoppedStates(c) == Del(playing_states, c)
\* leave_group_call, when it succeeds, ends the chat's stream for good
StoppedStreams(c, ok) == IF ok THEN stream_ended \ {c} ELSE stream_ended

\* variant: every Player.stop goes on to run _play_next, as skip_current does
LeaveDone_advances(r, ok, k) ==
    /\ r \in TaskSet /\ r.pc \in {"stop_leave", "skip_leave"}
    /\ LET c == r.chat
           others == Disturb(Drop(tasks, r), c)
       IN /\ active_chats' = StoppedCalls(c, ok)
          /\ playing_states' = StoppedStates(c)
          /\ IF c \in DOMAIN now_playing
             THEN PlayNext(c, r, k, Del(now_playing, c), StoppedCalls(c, ok), others)
             ELSE /\ k = 0
                  /\ tasks' = others
                  /\ UNCHANGED <<queues, now_playing, leave_timers, timer_tasks, popped>>
    /\ stream_ended' = StoppedStreams(r.chat, ok)
    /\ UNCHANGED <<auto_leave_vc, nextItem, reordered>>
    /\ UNCHANGED returned

\* Player.stop resumes from leave_voice_chat; inside skip_current the
\* coroutine goes on to clear now_playing and run _play_next
LeaveDone(r, ok, k) ==
    /\ r \in TaskSet /\ r.pc \in {"stop_leave", "skip_leave"}
    /\ LET c == r.chat
           others == Disturb(Drop(tasks, r), c)
       IN /\ active_chats' = StoppedCalls(c, ok)
          /\ playing_states' = StoppedStates(c)
          /\ IF r.pc = "skip_leave" /\ c \in DOMAIN now_playing
             THEN PlayNext(c, r, k, Del(now_playing, c), StoppedCalls(c, ok), others)
             ELSE /\ k = 0
                  /\ tasks' = others
                  /\ UNCHANGED <<queues, now_playing, leave_timers, timer_tasks, popped>>
    /\ stream_ended' = StoppedStreams(r.chat, ok)
    /\ UNCHANGED <<auto_leave_vc, nextItem, reordered>>
    /\ UNCHANGED returned

\* leave_after_delay wakes up from asyncio.sleep(auto_leave_delay)
TimerFire(c) ==
    /\ c \in DOMAIN leave_timers /\ leave_timers[c] = "sleep"
    /\ IF ~is_playing(c) /\ get_queue_length(c) = 0
       THEN /\ leave_timers' = [leave_timers EXCEPT ![c] = "stop_leave"]
            /\ timer_tasks' = timer_tasks
       ELSE /\ leave_timers' = [leave_timers EXCEPT ![c] = "done"]
            /\ timer_tasks' = [timer_tasks EXCEPT ![c] = @ - 1]
    /\ tasks' = Disturb(tasks, c)
    /\ UNCHANGED <<queues, now_playing, auto_leave_vc, stream_ended, playing_states,
                   active_chats, nextItem, popped, reordered>>
    /\ UNCHANGED returned

\* leave_after_delay resumes from player.stop's leave_voice_chat
TimerLeaveDone(c, ok) ==
    /\ c \in DOMAIN leave_timers /\ leave_timers[c] = "stop_leave"
    /\ active_chats' = StoppedCalls(c, ok)
    /\ playing_states' = StoppedStates(c)
    /\ leave_timers' = [leave_timers EXCEPT ![c] = "done"]
    /\ timer_tasks' = [timer_tasks EXCEPT ![c] = @ - 1]
    /\ tasks' = Disturb(tasks, c)
    /\ stream_ended' = StoppedStreams(c, ok)
    /\ UNCHANGED <<queues, now_playing, auto_leave_vc, nextItem, popped, reordered>>
    /\ UNCHANGED returned

\* ------------------------------------------ control handlers (control.py)
\* What /skip answers at once: the replies of require_voice_chat, admin_only
\* and skip_command, or the call it goes on to make
SkipReply(c, admin) ==
    IF ~call_manager_is_playing(c) THEN "not_in_voice_chat"
    ELSE IF ~admin THEN "no_permission"
    ELSE IF ~is_playing(c) THEN "nothing_playing"
    ELSE IF get_queue_length(c) = 0 THEN "player.stop"
    ELSE IF c \in DOMAIN now_playing THEN "player.skip"
    ELSE "failed_to_skip"

\* /skip: skip_command with its decorators; skip_current runs up to the
\* leave_group_call inside player.skip
SkipCommand(c, admin) ==
    /\ UNCHANGED <<queues, now_playing, leave_timers, timer_tasks, auto_leave_vc, stream_ended, playing_states,
                   active_chats, nextItem, popped, reordered>>
    /\ IF SkipReply(c, admin) = "player.stop"
       THEN /\ Room
            /\ tasks' = Spawn(Disturb(tasks, c), Task(c, "skip_stop", "reply", "mixed"))
       ELSE IF SkipReply(c, admin) = "player.skip"
       THEN /\ Room
            /\ tasks' = Spawn(Disturb(tasks, c),
                            [Task(c, "skip", "skip_leave",
                                  IF ~ChatBusy(c) /\ player_is_playing(c)
                                  THEN "solo" ELSE "mixed")
                             EXCEPT !.qlen0 = IF ~ChatBusy(c) /\ player_is_playing(c)
                                              THEN get_queue_length(c) ELSE 0])
       ELSE tasks' = tasks
    /\ UNCHANGED returned

\* skip_command resumes from message.reply and calls player.stop
ReplyDone(r) ==
    /\ r \in TaskSet /\ r.pc = "reply"
    /\ tasks' = Spawn(Disturb(Drop(tasks, r), r.chat), [r EXCEPT !.pc = "stop_leave"])
    /\ UNCHANGED <<queues, now_playing, leave_timers, timer_tasks, auto_leave_vc, stream_ended, playing_states,
                   active_chats, nextItem, popped, reordered>>
    /\ UNCHANGED returned

\* What /stop answers at once, or the call it goes on to make
StopReply(c, admin) ==
    IF ~call_manager_is_playing(c) THEN "not_in_voice_chat"
    ELSE IF ~admin THEN "no_permission"
    ELSE "player.stop"

\* /stop: stop_command with its decorators; player.stop runs up to leave_group_call
StopCommand(c, admin) ==
    /\ UNCHANGED <<queues, now_playing, leave_timers, timer_tasks, auto_leave_vc, stream_ended, playing_states,
                   active_chats, nextItem, popped, reordered>>
    /\ IF StopReply(c, admin) = "player.stop"
       THEN /\ Room
            /\ tasks' = Spawn(Overtake(Disturb(tasks, c), c),
                              Task(c, "stop", "stop_leave", "mixed"))
       ELSE tasks' = tasks
    /\ UNCHANGED returned

\* What /pause answers at once, or the call it goes on to make
PauseReply(c) ==
    IF ~call_manager_is_playing(c) THEN "not_in_voice_chat"
    ELSE IF ~is_playing(c) THEN "nothing_playing"
    ELSE IF ~player_is_playing(c) THEN "nothing_playing"
    ELSE "player.pause"

\* /pause: pause_command with its decorators; player.pause runs up to pause_stream
PauseCommand(c) ==
    /\ UNCHANGED <<queues, now_playing, leave_timers, timer_tasks, auto_leave_vc, stream_ended, playing_states,
                   active_chats, nextItem, popped, reordered>>
    /\ IF PauseReply(c) = "player.pause"
       THEN /\ Room
            /\ tasks' = Spawn(Disturb(tasks, c), Task(c, "pause", "pause", "mixed"))
       ELSE tasks' = tasks
    /\ UNCHANGED returned

\* what Player.pause and Player.resume return, given what pause_stream or
\* resume_stream returned (False when the voice library raised)
pause_returns(success) == success
resume_returns(success) == success

\* variant: the flags are cleared whatever pause_stream returned
PauseDone_unchecked(r, ok) ==
    /\ r \in TaskSet /\ r.pc = "pause"
    /\ LET c == r.chat IN
       /\ active_chats' = IF c \in DOMAIN active_chats
                          THEN [active_chats EXCEPT ![c].playing = FALSE]
                          ELSE active_chats
       /\ playing_states' = IF c \in DOMAIN playing_states
                            THEN [playing_states EXCEPT ![c].is_playing = FALSE]
                            ELSE playing_states
       /\ tasks' = Disturb(Drop(tasks, r), c)
    /\ UNCHANGED <<queues, now_playing, leave_timers, timer_tasks, auto_leave_vc, stream_ended, nextItem,
                   popped, reordered>>
    /\ UNCHANGED returned

\* Player.pause resumes from CallManager.pause_stream
PauseDone(r, ok) ==
    /\ r \in TaskSet /\ r.pc = "pause"
    /\ LET c == r.chat IN
       /\ active_chats' = IF ok /\ c \in DOMAIN active_chats
                          THEN [active_chats EXCEPT ![c].playing = FALSE]
                          ELSE active_chats
       /\ playing_states' = IF ok /\ c \in DOMAIN playing_states
                            THEN [playing_states EXCEPT ![c].is_playing = FALSE]
                            ELSE playing_states
       /\ tasks' = Disturb(Drop(tasks, r), c)
    /\ UNCHANGED <<queues, now_playing, leave_timers, timer_tasks, auto_leave_vc, stream_ended, nextItem,
                   popped, reordered>>
    /\ UNCHANGED returned

\* What /resume answers at once, or the call it goes on to make
ResumeReply(c) ==
    IF ~call_manager_is_playing(c) THEN "not_in_voice_chat"
    ELSE IF player_is_playing(c) THEN "already_playing"
    ELSE "player.resume"

\* /resume: resume_command with its decorator; player.resume runs up to resume_stream
ResumeCommand(c) ==
    /\ UNCHANGED <<queues, now_playing, leave_timers, timer_tasks, auto_leave_vc, stream_ended, playing_states,
                   active_chats, nextItem, popped, reordered>>
    /\ IF ResumeReply(c) = "player.resume"
       THEN /\ Room
            /\ tasks' = Spawn(Disturb(tasks, c), Task(c, "resume", "resume", "mixed"))
       ELSE tasks' = tasks
    /\ UNCHANGED returned

\* Player.resume resumes from CallManager.resume_stream
ResumeDone(r, ok) ==
    /\ r \in TaskSet /\ r.pc = "resume"
    /\ LET c == r.chat IN
       /\ active_chats' = IF ok /\ c \in DOMAIN active_chats
                          THEN [active_chats EXCEPT ![c].playing = TRUE]
                          ELSE active_chats
       /\ playing_states' = IF ok /\ c \in DOMAIN playing_states
                            THEN [playing_states EXCEPT ![c].is_playing = TRUE]
                            ELSE playing_states
       /\ tasks' = Disturb(Drop(tasks, r), c)
    /\ UNCHANGED <<queues, now_playing, leave_timers, timer_tasks, auto_leave_vc, stream_ended, nextItem,
                   popped, reordered>>
    /\ UNCHANGED returned

\* ------------------------------------------------ CallManager (calls.py)
\* _on_stream_end: the voice library reports that the stream of a playing
\* chat ended; the handler logs the event and returns
StreamEnd(c) ==
    /\ player_is_playing(c) /\ c \notin stream_ended
    /\ stream_ended' = stream_ended \cup {c}
    /\ tasks' = NoteEnd(tasks, c)
    /\ UNCHANGED <<queues, now_playing, leave_timers, timer_tasks, auto_leave_vc, playing_states,
                   active_chats, nextItem, popped, reordered>>
    /\ UNCHANGED returned

\* ------------------------------------------- queue-only operations (queue.py)
\* variant: the index is taken as a 1-based position
RemoveAt_position(q, i) == SubSeq(q, 1, i - 1) \o SubSeq(q, i + 1, Len(q))
\* queue.pop(index)
RemoveAt(q, i) == SubSeq(q, 1, i) \o SubSeq(q, i + 2, Len(q))
\* queue.insert(index, item) on a 0-based index within range
InsertAt(q, i, x) == SubSeq(q, 1, i) \o <<x>> \o SubSeq(q, i + 1, Len(q))
\* item = queue.pop(from_index); queue.insert(to_index, item)
MoveItem(q, from, to) == InsertAt(RemoveAt(q, from), to, q[from + 1])
\* variant: every position is drawn afresh from the entries
Shuffles_redrawn(q) == [1 .. Len(q) -> {q[i] : i \in 1 .. Len(q)}]
\* the orders random.shuffle can leave the list in
Shuffles(q) ==
    {r \in [1..Len(q) -> {q[i] : i \in 1..Len(q)}] :
        \A x \in {q[i] : i \in 1..Len(q)} :
            Cardinality({i \in 1..Len(q) : r[i] = x})
              = Cardinality({i \in 1..Len(q) : q[i] = x})}

\* what the queue-only operations return
clear_queue_returns(c) == IF c \in DOMAIN queues THEN Len(queues[c]) ELSE 0
remove_from_queue_returns(c, index) ==
    c \in DOMAIN queues /\ 0 <= index /\ index < Len(queues[c])
move_queue_item_returns(c, from_index, to_index) ==
    /\ 0 <= from_index /\ from_index < get_queue_length(c)
    /\ 0 <= to_index /\ to_index < get_queue_length(c)
    /\ from_index # to_index
shuffle_queue_returns(c) == c \in DOMAIN queues /\ Len(queues[c]) > 1

\* variant: clearing also drops the now_playing entry and the timer, as
\* cleanup_chat does
ClearQueue_cleanup(c) ==
    /\ IF c \in DOMAIN queues
       THEN /\ queues' = [queues EXCEPT ![c] = <<>>]
            /\ reordered' = [reordered EXCEPT ![c] = @ \/ Len(queues[c]) > 0]
       ELSE /\ queues' = queues
            /\ reordered' = reordered
    /\ now_playing' = Del(now_playing, c)
    /\ leave_timers' = Del(leave_timers, c)
    /\ timer_tasks' = [timer_tasks EXCEPT ![c] = @ - Cancelled(c)]
    /\ tasks' = Disturb(tasks, c)
    /\ popped' = [popped EXCEPT ![c] = Recorded(@, reordered'[c])]
    /\ UNCHANGED <<auto_leave_vc, stream_ended, playing_states, active_chats, nextItem>>

\* clear_queue(chat_id)
ClearQueue(c) ==
    /\ IF c \in DOMAIN queues
       THEN /\ queues' = [queues EXCEPT ![c] = <<>>]
            /\ reordered' = [reordered EXCEPT ![c] = @ \/ Len(queues[c]) > 0]
       ELSE /\ queues' = queues
            /\ reordered' = reordered
    /\ tasks' = Disturb(tasks, c)
    /\ popped' = [popped EXCEPT ![c] = Recorded(@, reordered'[c])]
    /\ UNCHANGED <<now_playing, leave_timers, timer_tasks, auto_leave_vc, stream_ended, playing_states,
                   active_chats, nextItem>>

\* variant: a negative index counts from the end of the list, as list.pop
\* takes it
RemoveFromQueue_wrap(c, index) ==
    /\ IF c \in DOMAIN queues /\ -Len(queues[c]) <= index /\ index < Len(queues[c])
       THEN /\ queues' = [queues EXCEPT ![c] =
                            RemoveAt(@, IF index < 0 THEN Len(@) + index ELSE index)]
            /\ reordered' = [reordered EXCEPT ![c] = TRUE]
       ELSE /\ queues' = queues
            /\ reordered' = reordered
    /\ tasks' = Disturb(tasks, c)
    /\ popped' = [popped EXCEPT ![c] = Recorded(@, reordered'[c])]
    /\ UNCHANGED <<now_playing, leave_timers, timer_tasks, auto_leave_vc, stream_ended, playing_states,
                   active_chats, nextItem>>

\* remove_from_queue(chat_id, index)
RemoveFromQueue(c, index) ==
    /\ IF c \in DOMAIN queues /\ 0 <= index /\ index < Len(queues[c])
       THEN /\ queues' = [queues EXCEPT ![c] = RemoveAt(@, index)]
            /\ reordered' = [reordered EXCEPT ![c] = TRUE]
       ELSE /\ queues' = queues
            /\ reordered' = reordered
    /\ tasks' = Disturb(tasks, c)
    /\ popped' = [popped EXCEPT ![c] = Recorded(@, reordered'[c])]
    /\ UNCHANGED <<now_playing, leave_timers, timer_tasks, auto_leave_vc, stream_ended, playing_states,
                   active_chats, nextItem>>

\* move_queue_item(chat_id, from_index, to_index)
MoveQueueItem(c, from_index, to_index) ==
    /\ LET queue == get_queue(c) IN
       IF /\ 0 <= from_index /\ from_index < Len(queue)
          /\ 0 <= to_index /\ to_index < Len(queue)
          /\ from_index # to_index
       THEN /\ queues' = [queues EXCEPT ![c] = MoveItem(queue, from_index, to_index)]
            /\ reordered' = [reordered EXCEPT ![c] = TRUE]
       ELSE /\ queues' = queues
            /\ reordered' = reordered
    /\ tasks' = Disturb(tasks, c)
    /\ popped' = [popped EXCEPT ![c] = Recorded(@, reordered'[c])]
    /\ UNCHANGED <<now_playing, leave_timers, timer_tasks, auto_leave_vc, stream_ended, playing_states,
                   active_chats, nextItem>>

\* shuffle_queue(chat_id)
ShuffleQueue(c) ==
    /\ IF c \in DOMAIN queues /\ Len(queues[c]) > 1
       THEN /\ \E r \in Shuffles(queues[c]) : queues' = [queues EXCEPT ![c] = r]
            /\ reordered' = [reordered EXCEPT ![c] = TRUE]
       ELSE /\ queues' = queues
            /\ reordered' = reordered
    /\ tasks' = Disturb(tasks, c)
    /\ popped' = [popped EXCEPT ![c] = Recorded(@, reordered'[c])]
    /\ UNCHANGED <<now_playing, leave_timers, timer_tasks, auto_leave_vc, stream_ended, playing_states,
                   active_chats, nextItem>>

\* cleanup_chat(chat_id): the queue and the now_playing entry are dropped,
\* the timer is cancelled and dropped
CleanupChat(c) ==
    /\ queues' = Del(queues, c)
    /\ now_playing' = Del(now_playing, c)
    /\ leave_timers' = Del(leave_timers, c)
    /\ timer_tasks' = [timer_tasks EXCEPT ![c] = @ - Cancelled(c)]
    /\ reordered' = [reordered EXCEPT ![c] = @ \/ get_queue_length(c) > 0]
    /\ popped' = [popped EXCEPT ![c] = Recorded(@, reordered'[c])]
    /\ tasks' = Disturb(tasks, c)
    /\ UNCHANGED <<auto_leave_vc, stream_ended, playing_states, active_chats, nextItem,
                   returned>>

\* ------------------------------------------ queue handlers (handlers/queue.py)
\* What /remove <n> answers: the replies of require_voice_chat, require_queue,
\* admin_only and remove_command
RemoveReply(c, admin, n) ==
    LET position == n - 1 IN
    IF ~call_manager_is_playing(c) THEN "not_in_voice_chat"
    ELSE IF get_queue_length(c) = 0 THEN "queue_empty"
    ELSE IF ~admin THEN "no_permission"
    ELSE IF position < 0 THEN "position_not_positive"
    ELSE IF position >= get_queue_length(c) THEN "out_of_range"
    ELSE IF remove_from_queue_returns(c, position) THEN "removed"
    ELSE "failed_to_remove"

\* /remove <n>: remove_command with its decorators
RemoveCommand(c, admin, n) ==
    IF RemoveReply(c, admin, n) \in {"removed", "failed_to_remove"}
    THEN RemoveFromQueue(c, n - 1)
    ELSE UNCHANGED core

\* the entry /queue lists under number n: item['index'] + 1 over enumerate(queue)
Listed(q, n) == q[(n - 1) + 1]

\* -------------------------------------------- play handlers (handlers/play.py)
\* durations of the tracks requested: at the limit and just above it
Durations == MAX_AUDIO_DURATION .. (MAX_AUDIO_DURATION + 1)
\* how a create_user_safe call goes: the database is not connected and the
\* fallback answers, the record is inserted, or the insert fails
StoreOutcomes == {"no_db", "created", "failed"}
PlayHandlers == {"play_command", "play_file_command"}

\* what create_user_safe returns; db.create_user catches every exception of
\* the insert and returns False
create_user_safe_returns(store) == store # "failed"
\* what increment_play_count returns (a stub)
increment_play_count_returns == TRUE

\* Downloader.extract_info for a track of duration dur.  _extract assigns to
\* `query`, so the name is local to _extract and its first read, in
\* is_valid_url(query), raises UnboundLocalError; extract_info logs the
\* exception and returns None
extract_info(dur) == None

\* the handler has returned
HandlerDone(r) == r.pc \notin {"create_user", "reply_searching", "reply_downloading",
                               "extract", "download"}

\* variant: the handler gives up when the user record could not be created
AfterCreateUser_checked(r, created) ==
    IF ~created THEN [r EXCEPT !.pc = "store_failed"]
    ELSE IF r.kind = "play_command" THEN [r EXCEPT !.pc = "reply_searching"]
    ELSE IF r.dur > MAX_AUDIO_DURATION THEN [r EXCEPT !.pc = "too_long"]
    ELSE [r EXCEPT !.pc = "reply_downloading"]
\* the handler from the return of create_user_safe, whose result it drops,
\* to its next await: play_command replies that it is searching,
\* play_file_command checks the duration and replies that it is downloading
AfterCreateUser(r, created) ==
    IF r.kind = "play_command" THEN [r EXCEPT !.pc = "reply_searching"]
    ELSE IF r.dur > MAX_AUDIO_DURATION THEN [r EXCEPT !.pc = "too_long"]
    ELSE [r EXCEPT !.pc = "reply_downloading"]

\* the handler r has returned: the duration it was given, how its
\* create_user_safe call went, whether it enqueued and what it answered
PlayCall(r, ret, reply) ==
    [NoCall EXCEPT !.op = r.kind, !.chat = r.chat, !.from = r.dur, !.ret = ret,
                   !.reply = reply, !.store = r.store]

\* the handler r goes on from create_user_safe while `others` are suspended
AfterUser(r, others) ==
    LET t == AfterCreateUser(r, create_user_safe_returns(r.store)) IN
    /\ IF HandlerDone(t)
       THEN /\ tasks' = others
            /\ returned' = PlayCall(r, FALSE, t.pc)
       ELSE /\ tasks' = Spawn(others, t)
            /\ returned' = returned
    /\ UNCHANGED <<queues, now_playing, leave_timers, timer_tasks, auto_leave_vc, stream_ended,
                   playing_states, active_chats, nextItem, popped, reordered>>

\* /play <query> or an audio file arrives: the handler runs up to its first
\* await that suspends
PlayRequest(c, kind, dur, store) ==
    /\ Room
    /\ Cardinality({r \in TaskSet : r.kind \in PlayHandlers}) < MaxHandlers
    /\ LET r == [Task(c, kind, "create_user", "mixed") EXCEPT !.dur = dur, !.store = store]
       IN IF store = "no_db"
          THEN AfterUser(r, tasks)
          ELSE /\ tasks' = Spawn(tasks, r)
               /\ UNCHANGED <<queues, now_playing, leave_timers, timer_tasks, auto_leave_vc, stream_ended,
                              playing_states, active_chats, nextItem, popped, reordered,
                              returned>>

\* the handler resumes from the insert inside create_user_safe
CreateUserDone(r) ==
    /\ r \in TaskSet /\ r.pc = "create_user"
    /\ AfterUser(r, Drop(tasks, r))

\* the handler resumes from message.reply; an exception ends it
HandlerReplyDone(r, ok) ==
    /\ r \in TaskSet /\ r.pc \in {"reply_searching", "reply_downloading"}
    /\ IF ok
       THEN /\ tasks' = Spawn(Drop(tasks, r),
                              [r EXCEPT !.pc = IF r.pc = "reply_searching"
                                               THEN "extract" ELSE "download"])
            /\ returned' = returned
       ELSE /\ tasks' = Drop(tasks, r)
            /\ returned' = PlayCall(r, FALSE, "error")
    /\ UNCHANGED <<queues, now_playing, leave_timers, timer_tasks, auto_leave_vc, stream_ended,
                   playing_states, active_chats, nextItem, popped, reordered>>

\* play_command resumes from downloader.extract_info
ExtractDone(r) ==
    /\ r \in TaskSet /\ r.pc = "extract"
    /\ LET video_info == extract_info(r.dur) IN
       IF video_info = None
       THEN /\ tasks' = Drop(tasks, r)
            /\ returned' = PlayCall(r, FALSE, "not_found")
       ELSE IF r.dur > MAX_AUDIO_DURATION
       THEN /\ tasks' = Drop(tasks, r)
            /\ returned' = PlayCall(r, FALSE, "too_long")
       ELSE /\ tasks' = Spawn(Drop(tasks, r), [r EXCEPT !.pc = "download"])
            /\ returned' = returned
    /\ UNCHANGED <<queues, now_playing, leave_timers, timer_tasks, auto_leave_vc, stream_ended,
                   playing_states, active_chats, nextItem, popped, reordered>>

\* the handler resumes from the download (download_audio, download_media),
\* calls add_to_queue and, if accepted, increment_play_count, and answers
DownloadDone(r, ok) ==
    /\ r \in TaskSet /\ r.pc = "download"
    /\ IF ok
       THEN /\ Enqueue(r.chat, Drop(tasks, r))
            /\ returned' = PlayCall(r, add_to_queue_returns(r.chat),
                                    IF add_to_queue_returns(r.chat)
                                    THEN "added" ELSE "failed_to_add")
       ELSE /\ tasks' = Drop(tasks, r)
            /\ returned' = PlayCall(r, FALSE, "download_failed")
            /\ UNCHANGED <<queues, now_playing, leave_timers, timer_tasks, auto_leave_vc, stream_ended,
                           playing_states, active_chats, nextItem, popped, reordered>>

\* ------------------------------------------------------------ specification
Indexes(c) == -1 .. get_queue_length(c)
Fails == 0 .. MAX_QUEUE_SIZE

StartPlayNextStep == \E r \in TaskSet, k \in Fails : StartPlayNext(r, k)
JoinDoneStep == \E r \in TaskSet, ok \in BOOLEAN, k \in Fails : JoinDone(r, ok, k)
StreamDoneStep == \E r \in TaskSet, ok \in BOOLEAN, k \in Fails : StreamDone(r, ok, k)
LeaveDoneStep == \E r \in TaskSet, ok \in BOOLEAN, k \in Fails : LeaveDone(r, ok, k)
ReplyDoneStep == \E r \in TaskSet : ReplyDone(r)
PauseDoneStep == \E r \in TaskSet, ok \in BOOLEAN : PauseDone(r, ok)
ResumeDoneStep == \E r \in TaskSet, ok \in BOOLEAN : ResumeDone(r, ok)

\* a suspended coroutine resumes
Resume ==
    \/ StartPlayNextStep
    \/ JoinDoneStep
    \/ StreamDoneStep
    \/ LeaveDoneStep
    \/ ReplyDoneStep
    \/ PauseDoneStep
    \/ ResumeDoneStep

TimerStep(c) ==
    \/ TimerFire(c)
    \/ \E ok \in BOOLEAN : TimerLeaveDone(c, ok)

Request(c) ==
    \/ AddToQueue(c)
    \/ \E admin \in BOOLEAN : SkipCommand(c, admin)
    \/ \E admin \in BOOLEAN : StopCommand(c, admin)
    \/ PauseCommand(c)
    \/ ResumeCommand(c)
    \/ StreamEnd(c)

\* the queue-only operations, called without their results being kept
ClearQueueStep(c) == ClearQueue(c) /\ UNCHANGED returned
RemoveFromQueueStep(c) == \E i \in Indexes(c) : RemoveFromQueue(c, i) /\ UNCHANGED returned
MoveQueueItemStep(c) == \E i, j \in Indexes(c) : MoveQueueItem(c, i, j) /\ UNCHANGED returned
ShuffleQueueStep(c) == ShuffleQueue(c) /\ UNCHANGED returned

QueueEdit(c) ==
    \/ ClearQueueStep(c)
    \/ RemoveFromQueueStep(c)
    \/ MoveQueueItemStep(c)
    \/ ShuffleQueueStep(c)

\* one chat, every operation
Chats == {1}
Next == Resume \/ \E c \in Chats : (TimerStep(c) \/ Request(c) \/ QueueEdit(c))
Spec == Init /\ [][Next]_vars

\* ------------------------------------- the queue-only operations on their own
\* Queues of up to MaxLen entries, met either on a chat the bot has never
\* seen or on a chat that plays entry 1 with entries 2 .. MaxLen + 1 accepted
\* since; every queue-only operation is applied with every argument.
QueueContents ==
    {q \in UNION {[1 .. n -> 2 .. MaxLen + 1] : n \in 0 .. MaxLen} :
        \A i, j \in DOMAIN q : q[i] = q[j] => i = j}

EditInit ==
    /\ auto_leave_vc \in BOOLEAN
    /\ leave_timers = EmptyDict
    /\ timer_tasks = [c \in AllChats |-> 0]
    /\ tasks = EmptyBag
    /\ stream_ended = {}
    /\ returned = NoCall
    /\ \/ /\ queues = EmptyDict
          /\ now_playing = EmptyDict
          /\ playing_states = EmptyDict
          /\ active_chats = EmptyDict
          /\ nextItem = [c \in AllChats |-> 1]
          /\ popped = [c \in AllChats |-> <<>>]
          /\ reordered = [c \in AllChats |-> FALSE]
       \/ \E q \in QueueContents :
          /\ queues = Put(EmptyDict, 1, q)
          /\ now_playing = Put(EmptyDict, 1, 1)
          /\ playing_states = Put(EmptyDict, 1, [is_playing |-> TRUE, current_track |-> 1])
          /\ active_chats = Put(EmptyDict, 1, [playing |-> TRUE, current_song |-> 1])
          /\ nextItem = [c \in AllChats |-> IF c = 1 THEN MaxLen + 2 ELSE 1]
          /\ popped = [c \in AllChats |-> IF c = 1 THEN <<1>> ELSE <<>>]
          /\ reordered = [c \in AllChats |->
                            c = 1 /\ q # [i \in 1 .. MaxLen |-> i + 1]]

EditIndexes(c) == -1 .. get_queue_length(c) + 1

EditClear(c) ==
    /\ ClearQueue(c)
    /\ returned' = Call("clear_queue", c, 0, 0, TRUE, clear_queue_returns(c), "none")
EditRemove(c) ==
    \E i \in EditIndexes(c) :
        /\ RemoveFromQueue(c, i)
        /\ returned' = Call("remove_from_queue", c, i, i,
                            remove_from_queue_returns(c, i), 0, "none")
EditMove(c) ==
    \E i, j \in EditIndexes(c) :
        /\ MoveQueueItem(c, i, j)
        /\ returned' = Call("move_queue_item", c, i, j,
                            move_queue_item_returns(c, i, j), 0, "none")
EditShuffle(c) ==
    /\ ShuffleQueue(c)
    /\ returned' = Call("shuffle_queue", c, 0, 0, shuffle_queue_returns(c), 0, "none")
EditRemoveCommand(c) ==
    \E admin \in BOOLEAN, n \in 0 .. get_queue_length(c) + 1 :
        /\ RemoveCommand(c, admin, n)
        /\ returned' = Call("remove_command", c, n, n,
                            RemoveReply(c, admin, n) = "removed", 0,
                            RemoveReply(c, admin, n))

EditNext ==
    \E c \in Chats :
        \/ EditClear(c)
        \/ EditRemove(c)
        \/ EditMove(c)
        \/ EditShuffle(c)
        \/ EditRemoveCommand(c)
EditSpec == EditInit /\ [][EditNext]_vars

\* ------------------------------------------------------- two chats at once
\* Every operation of Spec and cleanup_chat, on either chat; up to
\* MaxAccepted enqueues are accepted, shared between the chats in any way.
Accepted == (nextItem[1] - 1) + (nextItem[2] - 1)
AddToQueueWithin(c) ==
    /\ add_to_queue_returns(c) => Accepted < MaxAccepted
    /\ AddToQueue(c)

TwoChatRequest(c) ==
    \/ AddToQueueWithin(c)
    \/ \E admin \in BOOLEAN : SkipCommand(c, admin)
    \/ \E admin \in BOOLEAN : StopCommand(c, admin)
    \/ PauseCommand(c)
    \/ ResumeCommand(c)
    \/ StreamEnd(c)
    \/ CleanupChat(c)

TwoChatNext ==
    Resume \/ \E c \in AllChats : (TimerStep(c) \/ TwoChatRequest(c) \/ QueueEdit(c))
TwoChatSpec == Init /\ [][TwoChatNext]_vars

\* --------------------------------------------- the play path on its own
\* Requests arrive only through the play handlers; the tracks they enqueue
\* are played, fail and run out as in Spec.
CreateUserDoneStep == \E r \in TaskSet : CreateUserDone(r)
HandlerReplyDoneStep == \E r \in TaskSet, ok \in BOOLEAN : HandlerReplyDone(r, ok)
ExtractDoneStep == \E r \in TaskSet : ExtractDone(r)
DownloadDoneStep == \E r \in TaskSet, ok \in BOOLEAN : DownloadDone(r, ok)

PlayStep ==
    \/ \E c \in Chats, kind \in PlayHandlers, dur \in Durations, store \in StoreOutcomes :
          PlayRequest(c, kind, dur, store)
    \/ CreateUserDoneStep
    \/ HandlerReplyDoneStep
    \/ ExtractDoneStep
    \/ DownloadDoneStep

\* No control command is issued, so no coroutine waits in a command's reply,
\* pause or resume; and no skip clears now_playing, so a firing timer finds
\* is_playing() True and never goes on to leave.
PlayNextStep ==
    \/ PlayStep
    \/ StartPlayNextStep
    \/ JoinDoneStep
    \/ StreamDoneStep
    \/ LeaveDoneStep
    \/ \E c \in Chats : TimerFire(c)
PlaySpec == Init /\ [][PlayNextStep]_vars

\* ------------------------------------------------------------------ claims
\* a skip of the playing track during which the stream-end notification for
\* that track arrived and nothing else ran on the chat
RacingSkip(r) == r.kind = "skip" /\ r.env = "ended"
\* advances of chat c suspended in the player (join_voice_chat, change_stream)
AdvancesInFlight(c) ==
    LET S == {r \in TaskSet : r.chat = c /\ r.pc \in {"join", "stream"}}
    IN BagCardinality([r \in S |-> tasks[r]])
\* a play-next task for chat c is created by this step
PlayNextSpawned(c) ==
    \E r \in BagToSet(tasks') :
        /\ r.chat = c /\ r.kind = "play_next" /\ r.pc = "start"
        /\ CopiesIn(r, tasks') > CopiesIn(r, tasks)

C2_SingleAdvance ==
    \A c \in AllChats : AdvancesInFlight(c) <= 1

\* C3: a now_playing entry is recorded for a chat exactly when the chat is
\* preparing, playing or paused; an idle chat has none.
C3_NowPlayingIffActive ==
    \A c \in AllChats : (c \in DOMAIN now_playing) <=> ~Idle(c)


\* C4: at every moment the queue of every chat holds at most MAX_QUEUE_SIZE
\* entries, whatever mix of enqueues, pops, removals, moves, shuffles and
\* clears produced it.
C4_QueueBounded ==
    \A c \in AllChats : get_queue_length(c) <= MAX_QUEUE_SIZE
\* a queue at capacity that has been both popped from and edited
C4_Witness ==
    \E c \in Chats : /\ get_queue_length(c) = MAX_QUEUE_SIZE
                     /\ reordered[c] /\ Len(popped[c]) > 0

\* C5: an enqueue on a queue that already holds MAX_QUEUE_SIZE entries
\* returns False and changes nothing: not the queue, not now_playing, not the
\* playback state, not the timers, and it starts no play-next task.
C5_FullRejected ==
    [][\A c \in Chats :
         (AddToQueue(c) /\ get_queue_length(c) >= MAX_QUEUE_SIZE)
         => /\ ~add_to_queue_returns(c)
            /\ UNCHANGED <<queues, now_playing, playing_states, active_chats,
                           leave_timers, tasks>>]_vars
\* an enqueue is refused while a track plays and the queue is full
C5_Witness ==
    \E c \in Chats : /\ get_queue_length(c) = MAX_QUEUE_SIZE
                     /\ ~add_to_queue_returns(c)
                     /\ Playing(c)

\* C6: while no shuffle, move, removal or clear has touched a chat's queue,
\* entries leave it in the order they were accepted: the entries popped so
\* far, in pop order, followed by the queue are the accepted entries in
\* acceptance order.
C6_FifoOrder ==
    \A c \in AllChats :
        ~reordered[c] =>
            popped[c] \o get_queue(c) = [i \in 1 .. (nextItem[c] - 1) |-> i]
\* every accepted entry has been popped from a queue never edited
C6_Witness ==
    \E c \in Chats : ~reordered[c] /\ Len(popped[c]) = MaxItems

\* C7: when an advance succeeds (the play attempt of the entry it popped
\* completes), the chat is Playing and now_playing is the entry that advance
\* popped from the head of the queue; an advance whose head is playable
\* leaves the queue without that head.
C7_SuccessfulAdvance ==
    /\ [][\A r \in TaskSet :
            StreamDone(r, TRUE, 0)
            => /\ Playing(r.chat)'
               /\ r.chat \in DOMAIN now_playing'
               /\ now_playing'[r.chat] = r.item
               /\ playing_states'[r.chat].current_track = now_playing'[r.chat]]_vars
    /\ [][\A r \in TaskSet :
            (StartPlayNext(r, 0) /\ get_queue_length(r.chat) > 0)
            => /\ queues'[r.chat] = Tail(queues[r.chat])
               /\ now_playing'[r.chat] = Head(queues[r.chat])]_vars

\* C8: a stream-end notification for a playing chat starts an advance: with
\* a non-empty queue the head is popped or a play-next is started, with an
\* empty queue the chat is taken towards Idle (now_playing cleared, playback
\* state dropped, or a stop or leave timer started).
C8_StreamEndAdvances ==
    [][\A c \in Chats :
         StreamEnd(c)
         => IF get_queue_length(c) > 0
            THEN \/ queues'[c] = Tail(queues[c])
                 \/ PlayNextSpawned(c)
            ELSE \/ c \notin DOMAIN now_playing'
                 \/ c \notin DOMAIN playing_states'
                 \/ leave_timers' # leave_timers
                 \/ BagCardinality(tasks') > BagCardinality(tasks)]_vars

\* C9: an accepted enqueue on a chat with no track preparing, playing or
\* paused starts a play-next.
C9_IdleEnqueuePlays ==
    [][\A c \in Chats :
         (AddToQueue(c) /\ add_to_queue_returns(c) /\ Idle(c))
         => PlayNextSpawned(c)]_vars

\* C10: a stop request of an admin in a non-Idle state is carried out: it
\* reaches player.stop, which leaves the voice chat, and when the leave has
\* succeeded the chat is Idle with no now_playing entry.
C10_StopCarriedOut ==
    /\ [](\A c \in Chats : ~Idle(c) => StopReply(c, TRUE) = "player.stop")
    /\ [][\A r \in TaskSet :
            (r.kind = "stop" /\ LeaveDone(r, TRUE, 0))
            => /\ Idle(r.chat)'
               /\ r.chat \notin DOMAIN now_playing']_vars

\* C11: stop never adds, removes or reorders queue entries: neither the
\* /stop handler up to its await nor any Player.stop completing after
\* leave_voice_chat changes the chat's queue.
C11_StopKeepsQueue ==
    /\ [][\A c \in Chats :
            (\E admin \in BOOLEAN : StopCommand(c, admin)) => UNCHANGED queues]_vars
    /\ [][\A r \in TaskSet :
            (r.pc = "stop_leave" /\ \E ok \in BOOLEAN, k \in Fails : LeaveDone(r, ok, k))
            => UNCHANGED queues]_vars
\* a /stop is suspended in leave_voice_chat while the queue is full
C11_Witness ==
    \E r \in TaskSet : /\ r.kind = "stop" /\ r.pc = "stop_leave"
                        /\ get_queue_length(r.chat) = MAX_QUEUE_SIZE
                        /\ r.chat \in DOMAIN now_playing

\* C12: on a chat paused by a first /pause, a second /pause makes no
\* pause_stream call and is answered with a result of its own, distinct
\* from the answers given when nothing is playing.
C12_SecondPauseDistinct ==
    \A c \in Chats :
        Paused(c) => PauseReply(c) \notin {"player.pause", "not_in_voice_chat",
                                           "nothing_playing"}

\* C13: a /resume on a chat that a /pause moved to Paused reaches
\* Player.resume (no precondition check rejects it).
C13_ResumeReachesPlayer ==
    \A c \in Chats : Paused(c) => ResumeReply(c) = "player.resume"

\* exactly one enqueue was accepted for chat c and its queue was never edited
FirstTrack(c) == nextItem[c] = 2 /\ ~reordered[c]

\* C14: enqueueing track A into a chat never seen before, with the play
\* attempt succeeding, takes the chat through Idle, Preparing, Playing: the
\* enqueue leaves it Idle with queue [A] and starts a play-next; that
\* play-next pops A and makes the chat Preparing with now_playing = A; it
\* stays Preparing through the join; the stream starting makes it Playing
\* with now_playing = A and an empty queue.
C14_FirstTrackPlays ==
    /\ [][\A c \in Chats :
            (c \notin DOMAIN queues /\ AddToQueue(c))
            => /\ Idle(c) /\ Idle(c)'
               /\ queues'[c] = <<1>>
               /\ c \notin DOMAIN now_playing'
               /\ PlayNextSpawned(c)]_vars
    /\ [][\A r \in TaskSet :
            (r.kind = "play_next" /\ FirstTrack(r.chat) /\ StartPlayNext(r, 0))
            => /\ Idle(r.chat) /\ Preparing(r.chat)'
               /\ r.chat \in DOMAIN now_playing' /\ now_playing'[r.chat] = 1
               /\ queues'[r.chat] = <<>>]_vars
    /\ [][\A r \in TaskSet :
            (r.kind = "play_next" /\ FirstTrack(r.chat) /\ JoinDone(r, TRUE, 0))
            => Preparing(r.chat) /\ Preparing(r.chat)']_vars
    /\ [][\A r \in TaskSet :
            (r.kind = "play_next" /\ FirstTrack(r.chat) /\ StreamDone(r, TRUE, 0))
            => /\ Preparing(r.chat) /\ Playing(r.chat)'
               /\ r.chat \in DOMAIN now_playing' /\ now_playing'[r.chat] = 1
               /\ playing_states'[r.chat].current_track = 1
               /\ queues'[r.chat] = <<>>]_vars
\* the first track of a chat is playing, nothing is queued
C14_Witness ==
    \E c \in Chats : /\ FirstTrack(c) /\ Playing(c) /\ TaskSet = {}
                     /\ c \in DOMAIN now_playing /\ now_playing[c] = 1
                     /\ popped[c] = <<1>> /\ get_queue(c) = <<>>

\* C15: an accepted enqueue while a track is playing or paused only appends:
\* the new entry goes to the tail of the queue, now_playing and the
\* playback state are unchanged and no play-next is started.
C15_EnqueueWhilePlaying ==
    [][\A c \in Chats :
         (AddToQueue(c) /\ add_to_queue_returns(c) /\ (Playing(c) \/ Paused(c)))
         => /\ queues'[c] = Append(get_queue(c), nextItem[c])
            /\ UNCHANGED <<now_playing, playing_states, active_chats, leave_timers>>
            /\ ~PlayNextSpawned(c)]_vars

\* an auto-leave timer of chat c is waiting out its delay
TimerPending(c) == c \in DOMAIN leave_timers /\ leave_timers[c] = "sleep"

\* C16: when a /skip on a chat with an empty queue has been carried out
\* (its player.stop has left the voice chat), the chat is Idle, it has no
\* now_playing entry and, with auto-leave enabled, an auto-leave timer is
\* pending.
C16_SkipOnEmptyQueue ==
    [][\A r \in TaskSet :
         (r.kind = "skip_stop" /\ r.pc = "stop_leave" /\ LeaveDone(r, TRUE, 0))
         => /\ Idle(r.chat)'
            /\ r.chat \notin DOMAIN now_playing'
            /\ (auto_leave_vc => TimerPending(r.chat)')]_vars

\* C17: once every remaining entry has failed and the queue is empty, the
\* chat is Idle with no now_playing entry, and with auto-leave enabled the
\* timer started for it will leave the voice chat when it fires (its test
\* `not is_playing and queue_length == 0` passes).
C17_ExhaustedQueueIdle ==
    \A c \in Chats :
        (TimerPending(c) /\ Idle(c) /\ get_queue_length(c) = 0)
        => /\ c \notin DOMAIN now_playing
           /\ ~is_playing(c)

\* the step is a play attempt of coroutine r failing, followed by k entries
\* failing validation: join or change_stream fails, or the first k entries
\* tried by a _play_next just entered fail validation
PlayFails(r, k) ==
    \/ JoinDone(r, FALSE, k)
    \/ StreamDone(r, FALSE, k)
    \/ (k > 0 /\ (StartPlayNext(r, k) \/ \E ok \in BOOLEAN : LeaveDone(r, ok, k)))

\* C18: a play attempt that fails (validation, join, stream start) is a
\* failed result handled by _play_next: the failed entries are discarded
\* and the coroutine goes on to attempt the next queue entry, which becomes
\* now_playing; if every remaining entry has failed the queue is empty and
\* the empty-queue handling runs (timer started, or player.stop called).
C18_FailedPlayTriesNext ==
    [][\A r \in TaskSet : \A k \in Fails :
         PlayFails(r, k)
         => LET c == r.chat
                q == get_queue(c)
            IN IF k < Len(q)
               THEN /\ queues'[c] = SubSeq(q, k + 2, Len(q))
                    /\ c \in DOMAIN now_playing' /\ now_playing'[c] = q[k + 1]
                    /\ \E t \in BagToSet(tasks') :
                          /\ t.chat = c /\ t.kind = r.kind
                          /\ t.pc \in {"join", "stream"} /\ t.item = q[k + 1]
                    /\ \A i \in 1 .. Len(queues'[c]) : queues'[c][i] # r.item
               ELSE /\ get_queue(c)' = <<>>
                    /\ IF auto_leave_vc
                       THEN TimerPending(c)'
                       ELSE \E t \in BagToSet(tasks') :
                              t.chat = c /\ t.kind = r.kind /\ t.pc = "stop_leave"]_vars
\* a coroutine is attempting an entry after two attempts failed
C18_Witness ==
    \E r \in TaskSet : /\ r.fails >= 2 /\ r.pc \in {"join", "stream"}
                        /\ r.chat \in DOMAIN now_playing
                        /\ now_playing[r.chat] = r.item

\* C19: an auto-leave timer is pending only while the chat is Idle with an
\* empty queue and auto-leave enabled: none is pending while a track is
\* preparing, playing or paused or while entries are queued, and none exists
\* when auto-leave is disabled.
C19_TimerOnlyWhenIdleEmpty ==
    \A c \in Chats :
        /\ TimerPending(c) => (Idle(c) /\ get_queue_length(c) = 0 /\ auto_leave_vc)
        /\ (c \in DOMAIN leave_timers => auto_leave_vc)

\* C20: a firing auto-leave timer calls stop only if the chat is Idle with
\* an empty queue; while a track is preparing, playing or paused, or entries
\* are queued, the firing leaves the voice chat alone.
C20_TimerFiresOnlyWhenIdle ==
    [][\A c \in Chats :
         (TimerFire(c) /\ leave_timers'[c] = "stop_leave")
         => (Idle(c) /\ get_queue_length(c) = 0)]_vars

\* the step is an accepted enqueue on chat c or a control command on chat c
\* that reaches the player (pause, resume, skip, stop)
AcceptedAction(c) ==
    \/ AddToQueue(c) /\ add_to_queue_returns(c)
    \/ PauseCommand(c) /\ PauseReply(c) = "player.pause"
    \/ ResumeCommand(c) /\ ResumeReply(c) = "player.resume"
    \/ \E admin \in BOOLEAN :
          SkipCommand(c, admin) /\ SkipReply(c, admin) \in {"player.skip", "player.stop"}
    \/ \E admin \in BOOLEAN :
          StopCommand(c, admin) /\ StopReply(c, admin) = "player.stop"

\* C21: an accepted enqueue or control action (pause, resume, skip, stop) on
\* a chat with an auto-leave timer waiting out its delay cancels that timer:
\* after the action the timer is no longer pending.
C21_ActionCancelsTimer ==
    [][\A c \in Chats :
         (TimerPending(c) /\ AcceptedAction(c)) => ~TimerPending(c)']_vars

\* C22: clear_queue, remove_from_queue, move_queue_item and shuffle_queue,
\* whether they succeed or fail, leave the chat's playback status
\* (Preparing, Playing, Paused, Idle), its now_playing entry, the player's
\* and the call manager's playing flags and the leave timer as they were.
C22_QueueEditsKeepPlayback ==
    [][\A c \in Chats :
         QueueEdit(c)
         => /\ UNCHANGED <<now_playing, playing_states, active_chats, leave_timers>>
            /\ Preparing(c)' = Preparing(c)
            /\ Playing(c)' = Playing(c)
            /\ Paused(c)' = Paused(c)
            /\ Idle(c)' = Idle(c)
            /\ is_playing(c)' = is_playing(c)]_vars
\* the queue was edited down to empty while a track plays, a skip is
\* suspended in the player and a timer is pending
C22_Witness ==
    \E c \in Chats :
        /\ reordered[c] /\ get_queue(c) = <<>> /\ c \in DOMAIN queues
        /\ Playing(c) /\ c \in DOMAIN now_playing /\ TimerPending(c)
        /\ \E r \in TaskSet : r.kind = "skip" /\ r.env = "mixed"

\* the entry of chat d in two readings of a per-chat dictionary
SameEntry(after, before, d) ==
    /\ (d \in DOMAIN after) = (d \in DOMAIN before)
    /\ d \in DOMAIN before => after[d] = before[d]
\* the coroutines of chat d suspended in tk
TasksOf(tk, d) == [r \in {x \in BagToSet(tk) : x.chat = d} |-> CopiesIn(r, tk)]
\* a step leaves everything kept for chat d as it was: its queue, its
\* now_playing entry, its playing flags, its leave timer, its pending
\* stream-end notification and its suspended coroutines
ChatUntouched(d) ==
    /\ SameEntry(queues', queues, d)
    /\ SameEntry(now_playing', now_playing, d)
    /\ SameEntry(playing_states', playing_states, d)
    /\ SameEntry(active_chats', active_chats, d)
    /\ SameEntry(leave_timers', leave_timers, d)
    /\ (d \in stream_ended') = (d \in stream_ended)
    /\ TasksOf(tasks', d) = TasksOf(tasks, d)
\* a coroutine of chat c resumes
ResumeOn(c) ==
    \E r \in TaskSet :
        /\ r.chat = c
        /\ \/ \E k \in Fails : StartPlayNext(r, k)
           \/ \E ok \in BOOLEAN, k \in Fails : JoinDone(r, ok, k)
           \/ \E ok \in BOOLEAN, k \in Fails : StreamDone(r, ok, k)
           \/ \E ok \in BOOLEAN, k \in Fails : LeaveDone(r, ok, k)
           \/ ReplyDone(r)
           \/ \E ok \in BOOLEAN : PauseDone(r, ok)
           \/ \E ok \in BOOLEAN : ResumeDone(r, ok)
\* an operation or event of chat c: a request, a queue edit, a cleanup, a
\* timer step or the resumption of one of its coroutines
OpOn(c) == TimerStep(c) \/ TwoChatRequest(c) \/ QueueEdit(c) \/ ResumeOn(c)

\* C23: every operation or event of chat c (enqueue, skip, stop, pause,
\* resume, clear, remove, move, shuffle, cleanup, timer firing, a failed
\* play attempt) leaves the queue, the now_playing entry, the playing flags
\* and the leave timer of every other chat unchanged, and leaves every
\* suspended coroutine of the other chats in place, so that a failure in
\* chat c never keeps another chat's operation from completing.
C23_ChatsIsolated ==
    [][\A c \in AllChats : \A d \in AllChats \ {c} :
           ChatUntouched(d) \/ ~OpOn(c)]_vars
\* a play attempt of chat 1 has failed and its coroutine is still suspended
\* while chat 2, with its own now_playing entry, is suspended in its own
\* play attempt
C23_Witness ==
    /\ \E r \in TaskSet : r.chat = 1 /\ r.fails >= 1
    /\ \E r \in TaskSet : r.chat = 2 /\ r.pc \in {"join", "stream"}
    /\ 2 \in DOMAIN now_playing /\ 1 \notin DOMAIN now_playing

\* q with the entry x taken out, the others in their order
Without(q, x) == SelectSeq(q, LAMBDA y : y # x)
\* index i is not a position of q (0-based)
OutOfRange(q, i) == i < 0 \/ i >= Len(q)

\* C24: remove_from_queue with an index outside 0 .. length-1 (negative,
\* equal to the length, beyond it, or on a chat without a queue) returns
\* False and leaves the queue as it was; /remove with such a position
\* answers with a refusal and leaves the queue as it was.
C24_RemoveOutOfRange ==
    /\ (returned.op = "remove_from_queue" /\ OutOfRange(returned.before, returned.from))
       => /\ ~returned.ret
          /\ get_queue(returned.chat) = returned.before
    /\ (returned.op = "remove_command" /\ OutOfRange(returned.before, returned.from - 1))
       => /\ returned.reply \notin {"removed", "failed_to_remove"}
          /\ get_queue(returned.chat) = returned.before
\* an index equal to the length of a queue of MaxLen entries was refused
C24_Witness ==
    /\ returned.op = "remove_from_queue" /\ ~returned.ret
    /\ returned.from = Len(returned.before) /\ Len(returned.before) = MaxLen

\* C25: remove_from_queue with a valid index i returns True and removes
\* exactly the entry at position i: the queue is one shorter and the other
\* entries keep their order; /remove n, once it passes its checks, removes
\* the entry /queue lists as number n, and an admin's /remove n with n
\* within the listing of a chat in a voice chat passes them.
C25_RemoveValidIndex ==
    /\ (returned.op = "remove_from_queue" /\ ~OutOfRange(returned.before, returned.from))
       => LET q == get_queue(returned.chat)
              b == returned.before
              i == returned.from
          IN /\ returned.ret
             /\ Len(q) = Len(b) - 1
             /\ \A j \in 1 .. Len(q) : q[j] = IF j <= i THEN b[j] ELSE b[j + 1]
    /\ (returned.op = "remove_command" /\ returned.reply = "removed")
       => /\ returned.from \in 1 .. Len(returned.before)
          /\ get_queue(returned.chat)
               = Without(returned.before, Listed(returned.before, returned.from))
          /\ Len(get_queue(returned.chat)) = Len(returned.before) - 1
    /\ \A c \in Chats : \A n \in 1 .. get_queue_length(c) :
          call_manager_is_playing(c) => RemoveReply(c, TRUE, n) = "removed"
\* /remove 2 took the second of MaxLen entries out
C25_Witness ==
    /\ returned.op = "remove_command" /\ returned.reply = "removed"
    /\ returned.from = 2 /\ Len(returned.before) = MaxLen
    /\ get_queue_length(returned.chat) = MaxLen - 1

\* C26: move_queue_item(from, to) with an index out of range returns False
\* and leaves the queue unchanged; with from = to in range it succeeds
\* (returns True) and leaves the queue unchanged; otherwise it returns True,
\* the moved entry ends at index `to`, the other entries keep their order
\* and the length is unchanged.
C26_MoveItem ==
    returned.op = "move_queue_item"
    => LET q == get_queue(returned.chat)
           b == returned.before
           f == returned.from
           t == returned.to
       IN IF OutOfRange(b, f) \/ OutOfRange(b, t)
          THEN ~returned.ret /\ q = b
          ELSE IF f = t
          THEN returned.ret /\ q = b
          ELSE /\ returned.ret
               /\ Len(q) = Len(b)
               /\ q[t + 1] = b[f + 1]
               /\ Without(q, b[f + 1]) = Without(b, b[f + 1])

\* the entries of q, with how often each occurs
Entries(q) == [x \in {q[i] : i \in 1 .. Len(q)} |->
                 Cardinality({i \in 1 .. Len(q) : q[i] = x})]

\* C27: shuffle_queue on a queue of length 0 or 1 returns False and leaves
\* the queue unchanged; on a longer queue it returns True and the new queue
\* is a permutation of the old one: same length, same entries, nothing
\* added or lost.
C27_ShufflePermutes ==
    returned.op = "shuffle_queue"
    => LET q == get_queue(returned.chat)
           b == returned.before
       IN IF Len(b) <= 1
          THEN ~returned.ret /\ q = b
          ELSE /\ returned.ret
               /\ Len(q) = Len(b)
               /\ Entries(q) = Entries(b)
\* a queue of MaxLen entries was shuffled into its reverse
C27_Witness ==
    /\ returned.op = "shuffle_queue" /\ returned.ret
    /\ Len(returned.before) = MaxLen
    /\ get_queue(returned.chat)
         = [i \in 1 .. MaxLen |-> returned.before[MaxLen + 1 - i]]

\* C28: a /skip on a chat in which nothing is preparing, playing or paused
\* is answered with a refusal (not in a voice chat, or nothing is playing)
\* and starts nothing: it reaches neither skip_current nor player.stop, so
\* queue, now_playing, playback status and timer stay as they are and no
\* entry is popped.
C28_SkipWhenNotPlaying ==
    \A c \in Chats :
        Idle(c) => SkipReply(c, TRUE) \in {"not_in_voice_chat", "nothing_playing"}

\* the step is a step of the play handler r
HandlerStep(r) ==
    \/ CreateUserDone(r)
    \/ \E ok \in BOOLEAN : HandlerReplyDone(r, ok)
    \/ ExtractDone(r)
    \/ \E ok \in BOOLEAN : DownloadDone(r, ok)

\* C29: a track longer than MAX_AUDIO_DURATION is refused as too long by
\* /play and by an audio upload (unless a failing message.reply ended the
\* handler before) and never reaches add_to_queue: no step of its handler
\* changes the queue or the playback state; a track of exactly
\* MAX_AUDIO_DURATION passes the duration check: its handler is not ended
\* by a too-long or not-found answer.
C29_DurationLimit ==
    /\ [](returned.op \in PlayHandlers
          => /\ returned.from > MAX_AUDIO_DURATION
                => (returned.reply \in {"too_long", "error"} /\ ~returned.ret)
             /\ returned.from <= MAX_AUDIO_DURATION
                => returned.reply \notin {"too_long", "not_found"})
    /\ [][\A r \in TaskSet :
            (r.kind \in PlayHandlers /\ r.dur > MAX_AUDIO_DURATION /\ HandlerStep(r))
            => UNCHANGED <<queues, now_playing, playing_states, active_chats,
                           leave_timers>>]_vars

\* C30: the Store calls around an enqueue decide nothing.  The handler goes
\* on from create_user_safe to the same place whether the user record was
\* created or not, and when its download is done the enqueue is the one
\* add_to_queue makes on the chat as it is then: accepted unless the queue
\* is full, the entry appended, a play-next started on a chat that is not
\* playing, now_playing and the playback state untouched.
C30_StoreFailureIgnored ==
    /\ [](\A r \in TaskSet :
            r.pc = "create_user" => AfterCreateUser(r, TRUE) = AfterCreateUser(r, FALSE))
    /\ [][\A r \in TaskSet :
            (r.kind \in PlayHandlers /\ DownloadDone(r, TRUE))
            => LET c == r.chat IN
               /\ IF add_to_queue_returns(c)
                  THEN /\ queues'[c] = Append(get_queue(c), nextItem[c])
                       /\ ~is_playing(c) => PlayNextSpawned(c)
                       /\ returned'.reply = "added"
                  ELSE /\ get_queue(c)' = get_queue(c)
                       /\ returned'.reply = "failed_to_add"
               /\ UNCHANGED <<now_playing, playing_states, active_chats, leave_timers>>]_vars
\* an upload whose user record could not be created was enqueued and a
\* track is playing
C30_Witness ==
    /\ returned.op = "play_file_command" /\ returned.store = "failed"
    /\ returned.reply = "added" /\ returned.ret
    /\ \E c \in Chats : Playing(c) /\ c \in DOMAIN now_playing

\* C31: two add_to_queue calls, A then B, on a chat with nothing playing:
\* each append is atomic and lands at its call-order position (the tail),
\* and only one of the play-next tasks they spawn pops an entry: a play-next
\* task that starts when another advance has already recorded its
\* now_playing entry pops nothing, so that the chat ends with A as
\* now_playing and the queue equal to [B].
C31_TwoEnqueues ==
    /\ [][\A c \in Chats :
            (AddToQueue(c) /\ add_to_queue_returns(c))
            => queues'[c] = Append(get_queue(c), nextItem[c])]_vars
    /\ [][\A r \in TaskSet :
            (/\ r.kind = "play_next" /\ r.chat \in DOMAIN now_playing
             /\ \E k \in Fails : StartPlayNext(r, k))
            => UNCHANGED <<queues, now_playing>>]_vars

\* a play attempt of coroutine r, in flight when a /stop was accepted,
\* completes: play_audio resumes from join_voice_chat or change_stream
StaleCompletes(r) ==
    /\ r.stale
    /\ \E ok \in BOOLEAN, k \in Fails : JoinDone(r, ok, k) \/ StreamDone(r, ok, k)
\* no play attempt and no /stop of chat c is still suspended
AttemptsAndStopsDone(c) ==
    \A r \in TaskSet : r.chat = c => /\ r.pc \notin {"join", "stream"}
                                     /\ ~(r.kind = "stop" /\ r.pc = "stop_leave")

\* C32: when a /stop is accepted while a play attempt of the same chat is
\* suspended in join_voice_chat or change_stream, the late completion of that
\* attempt is ignored: it does not set now_playing, and once the attempt and
\* the stop have both finished the chat is Idle and the player does not
\* report it as playing.
C32_StaleAttemptIgnored ==
    /\ [][\A r \in TaskSet :
            StaleCompletes(r)
            => /\ now_playing' = now_playing
               /\ AttemptsAndStopsDone(r.chat)'
                    => (Idle(r.chat)' /\ ~player_is_playing(r.chat)')]_vars
    /\ [][\A r \in TaskSet :
            (r.kind = "stop" /\ \E ok \in BOOLEAN : LeaveDone(r, ok, 0))
            => (AttemptsAndStopsDone(r.chat)'
                  => (Idle(r.chat)' /\ ~player_is_playing(r.chat)'))]_vars

\* the step is a piece of a _play_next run of coroutine r in which k entries
\* fail validation: the run is entered (by the play-next task, or by
\* skip_current after player.skip) or re-entered after a failed join or
\* stream start
PlayNextPiece(r, k) ==
    \/ StartPlayNext(r, k)
    \/ JoinDone(r, FALSE, k)
    \/ StreamDone(r, FALSE, k)
    \/ (r.pc = "skip_leave" /\ r.chat \in DOMAIN now_playing
        /\ \E ok \in BOOLEAN : LeaveDone(r, ok, k))
\* a _play_next run entered by a skip on which nothing else has acted since
UndisturbedRun(r) ==
    r.kind = "skip" /\ r.env \in {"solo", "ended"} /\ r.pc # "skip_leave"

\* C33: one _play_next run attempts each queue entry at most once and
\* terminates.  Every piece of a run takes its entries off the head of the
\* queue, one per attempt, and never more than are queued; when every
\* attempt fails the queue is left empty and the run stops attempting.  A
\* run started with n entries queued, with no enqueue meanwhile, has popped
\* at most n entries, each failure having used up one of them, and when all
\* n attempts have failed it has made exactly n attempts and the queue is
\* empty.
C33_PlayNextTerminates ==
    /\ [][\A r \in TaskSet : \A k \in Fails :
            PlayNextPiece(r, k)
            => LET c == r.chat
                   q == get_queue(c)
                   n == IF k = Len(q) THEN k ELSE k + 1
               IN /\ k <= Len(q)
                  /\ get_queue(c)' = SubSeq(q, n + 1, Len(q))
                  /\ \A i \in 1 .. n : \A j \in 1 .. Len(get_queue(c)') :
                        get_queue(c)'[j] # q[i]
                  /\ k = Len(q)
                       => /\ get_queue(c)' = <<>>
                          /\ AdvancesInFlight(c)' =
                                AdvancesInFlight(c)
                                  - (IF r.pc \in {"join", "stream"} THEN 1 ELSE 0)]_vars
    /\ [](\A r \in TaskSet :
            /\ r.fails <= r.pops /\ r.pops <= r.fails + 1
            /\ UndisturbedRun(r)
                 => /\ r.pops <= r.qlen0
                    /\ get_queue_length(r.chat) = r.qlen0 - r.pops
                    /\ r.pc = "stop_leave"
                         => (r.fails = r.qlen0 /\ r.pops = r.qlen0
                             /\ get_queue_length(r.chat) = 0))
\* with auto-leave disabled, a run entered with a full queue has seen every
\* attempt fail and is stopping the player
C33_Witness ==
    \E r \in TaskSet :
        /\ UndisturbedRun(r) /\ r.pc = "stop_leave"
        /\ r.qlen0 = MAX_QUEUE_SIZE /\ r.fails = MAX_QUEUE_SIZE
        /\ get_queue_length(r.chat) = 0

\* the timer recorded for chat c has not finished: it is waiting out its
\* delay or is inside player.stop
TimerRunning(c) == c \in DOMAIN leave_timers /\ leave_timers[c] # "done"

\* C34: at any time at most one auto-leave timer task is running per chat,
\* and it is the one recorded in leave_timers: _handle_empty_queue cancels
\* the recorded timer before it schedules a new one, so no cancelled or
\* superseded timer is left running to invoke stop.
C34_OneTimerPerChat ==
    \A c \in AllChats :
        /\ timer_tasks[c] <= 1
        /\ timer_tasks[c] = (IF TimerRunning(c) THEN 1 ELSE 0)
\* a timer is waiting out its delay while a play attempt of the chat is in
\* flight with nothing queued: when the attempt fails, _handle_empty_queue
\* runs again and replaces the timer
C34_Witness ==
    \E c \in Chats :
        /\ TimerPending(c) /\ timer_tasks[c] = 1
        /\ get_queue_length(c) = 0
        /\ \E r \in TaskSet : r.chat = c /\ r.pc \in {"join", "stream"} /\ r.fails >= 1

\* C35: after cleanup_chat(chat) the chat has no queue, no now_playing entry
\* and no leave timer, recorded or running (so the cancelled timer can never
\* invoke stop), and the manager's is_playing no longer reports the chat as
\* playing.
C35_CleanupChat ==
    [][\A c \in AllChats :
         CleanupChat(c)
         => /\ c \notin DOMAIN queues'
            /\ c \notin DOMAIN now_playing'
            /\ c \notin DOMAIN leave_timers'
            /\ timer_tasks'[c] = 0
            /\ ~is_playing(c)']_vars

\* coroutine r is inside the player.stop that _handle_empty_queue calls when
\* auto-leave is disabled
EmptyQueueStop(r) == r.kind \in {"play_next", "skip"} /\ r.pc = "stop_leave"

\* C36: with auto-leave disabled, when the queue runs out the player.stop
\* called by _handle_empty_queue stops playback (the player no longer holds
\* a playing state for the chat) but does not leave the voice chat: a chat
\* that was joined in CallManager.active_chats is still joined afterwards.
C36_NoLeaveWhenDisabled ==
    /\ [](\A r \in TaskSet : EmptyQueueStop(r) => ~auto_leave_vc)
    /\ [][\A r \in TaskSet :
            (EmptyQueueStop(r) /\ \E ok \in BOOLEAN : LeaveDone(r, ok, 0))
            => /\ r.chat \notin DOMAIN playing_states'
               /\ r.chat \in DOMAIN active_chats
                    => r.chat \in DOMAIN active_chats']_vars

\* C37: whenever the player reports a chat as playing
\* (playing_states[chat].is_playing), the bot is joined to the chat's call
\* (the chat is in CallManager.active_chats), in every interleaving of
\* play_audio with Player.stop, skips and firing timers.
C37_PlayingImpliesJoined ==
    \A c \in AllChats : player_is_playing(c) => c \in DOMAIN active_chats

\* C38: whenever a chat has both a now_playing entry and a player
\* current_track they are the same track, and whenever the player reports
\* the chat as playing a now_playing entry exists, in every interleaving of
\* play-next tasks and skips.
C38_NowPlayingMatchesPlayer ==
    \A c \in AllChats :
        /\ (c \in DOMAIN now_playing /\ c \in DOMAIN playing_states)
              => now_playing[c] = playing_states[c].current_track
        /\ player_is_playing(c) => c \in DOMAIN now_playing

\* how many times entry i occurs in the sequence s
Occurrences(s, i) == Cardinality({j \in 1 .. Len(s) : s[j] = i})

\* C39: every entry accepted by add_to_queue is popped for playback at most
\* once and is never duplicated: it occurs at most once in its chat's queue
\* and at most once among the entries popped, never in both, and the
\* now_playing entry is an entry that was popped; an entry leaves the queue
\* only by being popped for a play attempt or by remove_from_queue,
\* clear_queue or cleanup_chat.
C39_EntriesNeverDuplicated ==
    /\ [](\A c \in AllChats : \A i \in 1 .. MaxItems :
            /\ Occurrences(get_queue(c), i) + Occurrences(popped[c], i) <= 1
            /\ i >= nextItem[c]
                 => Occurrences(get_queue(c), i) + Occurrences(popped[c], i) = 0
            /\ (c \in DOMAIN now_playing /\ now_playing[c] = i)
                 => (Occurrences(popped[c], i) = 1 /\ i < nextItem[c]))
    /\ [][\A c \in AllChats : \A i \in 1 .. MaxItems :
            (Occurrences(get_queue(c), i) = 1 /\ Occurrences(get_queue(c)', i) = 0)
            => \/ Occurrences(popped[c]', i) = 1
               \/ ClearQueue(c)
               \/ \E index \in Indexes(c) : RemoveFromQueue(c, index)
               \/ CleanupChat(c)]_vars
\* of two accepted entries one was popped and is now_playing, the other left
\* the queue without being popped
C39_Witness ==
    \E c \in AllChats :
        /\ nextItem[c] = 3 /\ get_queue(c) = <<>> /\ Len(popped[c]) = 1
        /\ c \in DOMAIN now_playing /\ now_playing[c] = popped[c][1]
        /\ player_is_playing(c)

\* C40: when the voice-library call made by Player.pause or Player.resume
\* fails or raises, the operation returns False and the chat's playing flags
\* (Player.playing_states, CallManager.active_chats), its queue and its
\* now_playing entry are left as they were; the coroutine ends normally.
C40_FailedPauseResume ==
    /\ [](~pause_returns(FALSE) /\ ~resume_returns(FALSE))
    /\ [][\A r \in TaskSet :
            (PauseDone(r, FALSE) \/ ResumeDone(r, FALSE))
            => /\ UNCHANGED <<playing_states, active_chats, queues, now_playing,
                              leave_timers>>
               /\ CopiesIn(r, tasks') = CopiesIn(r, tasks) - 1
               /\ BagCardinality(tasks') = BagCardinality(tasks) - 1]_vars
\* a /pause is suspended in pause_stream on a playing chat and a /resume is
\* suspended in resume_stream on a paused one, entries being queued
C40_Witness ==
    \/ \E r \in TaskSet : /\ r.pc = "pause" /\ Playing(r.chat)
                           /\ get_queue_length(r.chat) = MAX_QUEUE_SIZE
                           /\ call_manager_is_playing(r.chat)
    \/ \E r \in TaskSet : /\ r.pc = "resume" /\ Paused(r.chat)
                           /\ get_queue_length(r.chat) = MAX_QUEUE_SIZE

====
